---- MODULE Spec2Model ----
(***************************************************************************)
(* Model of the chat server of modern-ai-chatbot (src/server.js): the two  *)
(* process-wide maps conversationHistory and activeConnections, the REST   *)
(* handlers POST /api/chat, GET/DELETE /api/conversations, GET /api/health *)
(* and the Socket.IO handlers connection, identify, typing, send-message   *)
(* and disconnect.                                                         *)
(*                                                                         *)
(* JavaScript arrays are objects: `conversationHistory.get(k) || []`       *)
(* yields either the very array the map holds (so a later push is visible  *)
(* through the map) or a fresh array the map does not hold until           *)
(* `conversationHistory.set`.  The model therefore keeps a heap of arrays  *)
(* and lets the map and the handlers hold array references.                *)
(*                                                                         *)
(* Each async handler runs in two steps separated by its only suspension   *)
(* point, `await openai.chat.completions.create(...)`.                     *)
(***************************************************************************)
EXTENDS Integers, Sequences, FiniteSets, TLC

(* ---------------------------- bounds ---------------------------------- *)
\* number of chat messages (REST or real-time) the model lets arrive
MaxReq == 2
\* largest number of user/assistant pairs stored at start-up of the model
MaxInitPairs == 5

(* ------------------------ JavaScript values --------------------------- *)
\* strings are sequences of characters
Undefined == [type |-> "undefined"]
Null == [type |-> "null"]
Str(s) == [type |-> "string", val |-> s]
Num(n) == [type |-> "number", num |-> n]

IsWhite(c) == c = " "

RECURSIVE trimStart(_)
trimStart(s) ==
  IF s = <<>> THEN s
  ELSE IF IsWhite(Head(s)) THEN trimStart(Tail(s)) ELSE s

RECURSIVE trimEnd(_)
trimEnd(s) ==
  IF s = <<>> THEN s
  ELSE IF IsWhite(s[Len(s)]) THEN trimEnd(SubSeq(s, 1, Len(s) - 1)) ELSE s

\* String.prototype.trim
trim(s) == trimEnd(trimStart(s))

\* ToBoolean of a value, as `!message` uses it
Truthy(v) ==
  CASE v.type = "undefined" -> FALSE
    [] v.type = "null" -> FALSE
    [] v.type = "string" -> v.val # <<>>
    [] v.type = "number" -> v.num # 0

\* ToString of a value inside a template literal
ToStr(v) ==
  CASE v.type = "undefined" -> <<"u", "n", "d", "e", "f", "i", "n", "e", "d">>
    [] v.type = "null" -> <<"n", "u", "l", "l">>
    [] v.type = "string" -> v.val
    [] v.type = "number" -> IF v.num = 0 THEN <<"0">> ELSE <<"4", "2">>

(* ----------------------------- inputs --------------------------------- *)
SocketIds == {"s1", "s2"}
NoSocket == "none"

UserIds == {Str(<<"a">>)}
ConvIds == {Str(<<"b">>), Str(<<"c">>)}

\* message fields of a POST /api/chat body
RestMessages == {Str(<<"h", "i">>), Str(<<>>), Str(<<" ">>), Undefined, Num(42)}
\* payloads of a 'send-message' event whose message is one of Messages;
\* Undefined is an event sent without a payload
PayloadsWith(Messages) ==
  {[message |-> m, userId |-> u, conversationId |-> c, username |-> Str(<<"n">>)] :
     m \in Messages, u \in UserIds, c \in ConvIds}
  \cup {Undefined}
SocketPayloads == PayloadsWith({Str(<<"h", "i">>), Undefined})
\* the payloads that carry a text
TextPayloads == PayloadsWith({Str(<<"h", "i">>)})
\* the payloads of one conversation
RoomPayloads == {d \in TextPayloads : d = Undefined \/ d.conversationId = Str(<<"b">>)}

\* text of a completion
Replies == {Str(<<"h", "e", "l", "l", "o">>)}
\* error.code of a rejected completion
ErrorCodes == {"insufficient_quota", "rate_limit_exceeded", "other"}

IdentifyPayloads == {[userId |-> Str(<<"a">>), username |-> Str(<<"n">>)]}
\* identify payloads of two users, and an identify sent without a payload
IdentityPayloads ==
  IdentifyPayloads \cup {[userId |-> Str(<<"z">>), username |-> Str(<<"m">>)], Undefined}
\* a typing payload, and a typing sent without a payload
TypingPayloads ==
  {[userId |-> Str(<<"a">>), username |-> Str(<<"n">>), isTyping |-> TRUE], Undefined}

(* ------------------------- conversation key --------------------------- *)
\* `${userId}_${conversationId}`
historyKey(userId, conversationId) == ToStr(userId) \o <<"_">> \o ToStr(conversationId)

\* <<userId, conversationId>> with identifiers that hold the separator, with
\* a missing userId and with its spelling
KeyPairs == {<<Str(<<"a", "_", "b">>), Str(<<"c">>)>>,
             <<Str(<<"a">>), Str(<<"b", "_", "c">>)>>,
             <<Undefined, Str(<<"c">>)>>,
             <<Str(<<"u", "n", "d", "e", "f", "i", "n", "e", "d">>), Str(<<"c">>)>>}

Keys == {historyKey(u, c) : u \in UserIds, c \in ConvIds}
          \cup {historyKey(p[1], p[2]) : p \in KeyPairs}
\* the key that holds a history when the model starts
InitKey == historyKey(Str(<<"a">>), Str(<<"b">>))

(* ------------------------------ heap ---------------------------------- *)
\* array 0 is the array stored at start-up, array r the one request r creates
ArrIds == 0 .. MaxReq
Absent == -1

Min(a, b) == IF a < b THEN a ELSE b
Max(a, b) == IF a > b THEN a ELSE b

\* an unshift in place of the push
pushMut(arr, m) == <<m>> \o arr
\* Array.prototype.push
push(arr, m) == Append(arr, m)

\* a slice that starts one element late
sliceMut(arr, begin) ==
  LET len == Len(arr)
      k == IF begin < 0 THEN Max(len + begin + 1, 0) ELSE Min(begin, len)
  IN  SubSeq(arr, k + 1, len)
\* Array.prototype.slice(begin) with one argument
slice(arr, begin) ==
  LET len == Len(arr)
      k == IF begin < 0 THEN Max(len + begin, 0) ELSE Min(begin, len)
  IN  SubSeq(arr, k + 1, len)

\* context limits of the two channels
RestLimit == 10
SocketLimit == 8

SystemMessage(path) == [role |-> "system", content |-> Str(<<path>>), req |-> 0]
UserMessage(r, message) == [role |-> "user", content |-> message, req |-> r]
AssistantMessage(r, text) == [role |-> "assistant", content |-> text, req |-> r]

\* a window taken from the array as it was before the push of the user turn
contextMessagesMut(path, history, limit) ==
  <<SystemMessage(path)>> \o slice(SubSeq(history, 1, Len(history) - 1), 0 - limit)

\* messages = [ {role:'system',...}, ...history.slice(-N) ]
contextMessages(path, history, limit) == <<SystemMessage(path)>> \o slice(history, 0 - limit)

(* ------------------------ the two variants ---------------------------- *)
\* the OpenAI server (first half of server.js) and the DeepSeek server
Variants == {"openai", "deepseek"}

\* literals of the two provider calls of each variant
RestMaxTokens == 500
SocketMaxTokens == 300
DeepSeekRestLimit == 10
DeepSeekSocketLimit == 8
DeepSeekRestMaxTokens == 500
DeepSeekSocketMaxTokens == 300

\* model: of the provider call
modelName(variant) == IF variant = "openai" THEN "gpt-3.5-turbo" ELSE "deepseek-chat"

\* content of the system message, one text per variant and channel
systemPrompt(variant, path) == Str(<<variant, path>>)

\* a DeepSeek server that keeps the REST window on both channels
contextWindowMut(variant, path) ==
  CASE variant = "openai" /\ path = "rest" -> RestLimit
    [] variant = "openai" /\ path = "socket" -> SocketLimit
    [] variant = "deepseek" /\ path = "rest" -> DeepSeekRestLimit
    [] variant = "deepseek" /\ path = "socket" -> DeepSeekRestLimit

\* N of history.slice(-N)
contextWindow(variant, path) ==
  CASE variant = "openai" /\ path = "rest" -> RestLimit
    [] variant = "openai" /\ path = "socket" -> SocketLimit
    [] variant = "deepseek" /\ path = "rest" -> DeepSeekRestLimit
    [] variant = "deepseek" /\ path = "socket" -> DeepSeekSocketLimit

\* max_tokens: of the provider call
maxTokens(variant, path) ==
  CASE variant = "openai" /\ path = "rest" -> RestMaxTokens
    [] variant = "openai" /\ path = "socket" -> SocketMaxTokens
    [] variant = "deepseek" /\ path = "rest" -> DeepSeekRestMaxTokens
    [] variant = "deepseek" /\ path = "socket" -> DeepSeekSocketMaxTokens

\* the argument of openai.chat.completions.create, for the array the handler
\* holds after the push of the user turn
createParams(variant, path, history) ==
  [model |-> modelName(variant),
   messages |-> <<[role |-> "system", content |-> systemPrompt(variant, path), req |-> 0]>>
                  \o slice(history, 0 - contextWindow(variant, path)),
   max_tokens |-> maxTokens(variant, path),
   temperature |-> "0.7"]

(* ------------------------------ state --------------------------------- *)
VARIABLES
  conversationHistory,  \* Map: key -> array reference, Absent when not a key
  heap,                 \* array reference -> contents
  activeConnections,    \* Map: socket id -> connection record
  sockState,            \* Socket.IO's own view: "new", "open" or "closed"
  reqs,                 \* per chat message: the handler's locals and position
  nextReq,              \* number of the next chat message
  wiped,                \* history: per key, the messages a DELETE removed
  late,                 \* history: <<socket, event>> handled after the socket's disconnect
  typed,                \* history: the 'user-typing' events emitted, with their sender
  uncaught              \* <<socket, event>> whose handler let an exception escape

vars == <<conversationHistory, heap, activeConnections, sockState, reqs, nextReq, wiped,
          late, typed, uncaught>>

ReqIds == 1 .. MaxReq

IdleReq ==
  [pc |-> "idle", path |-> "none", sock |-> NoSocket, message |-> Undefined,
   userId |-> Undefined, conversationId |-> Undefined, key |-> <<>>, history |-> Absent, messages |-> <<>>,
   status |-> 0, body |-> Undefined, events |-> <<>>, error |-> "none",
   request |-> Undefined,
   startHist |-> <<>>, ahead |-> {}, overlap |-> FALSE]

\* the history a handler reads: conversationHistory.get(key) || []
StoredHistory(key) ==
  IF conversationHistory[key] = Absent THEN <<>> ELSE heap[conversationHistory[key]]

\* the same read in the next state
StoredHistoryNext(key) ==
  IF conversationHistory'[key] = Absent THEN <<>> ELSE heap'[conversationHistory'[key]]

\* body of GET /api/conversations/:userId/:conversationId
GetConversation(userId, conversationId) ==
  LET history == StoredHistory(historyKey(userId, conversationId))
  IN  [conversationId |-> conversationId, messages |-> history, messageCount |-> Len(history)]

Live == {s \in SocketIds : sockState[s] = "open"}

\* the pairs stored at start-up come from earlier, completed requests
InitPairs(n) ==
  [i \in 1 .. 2 * n |->
     IF i % 2 = 1 THEN UserMessage(0 - ((i + 1) \div 2), Str(<<"h", "i">>))
     ELSE AssistantMessage(0 - (i \div 2), Str(<<"h", "e", "l", "l", "o">>))]

Init ==
  /\ \E n \in {0, MaxInitPairs} :
       /\ conversationHistory = [k \in Keys |-> IF k = InitKey /\ n > 0 THEN 0 ELSE Absent]
       /\ heap = [a \in ArrIds |-> IF a = 0 THEN InitPairs(n) ELSE <<>>]
  /\ activeConnections = [s \in SocketIds |-> Undefined]
  /\ sockState = [s \in SocketIds |-> "new"]
  /\ reqs = [r \in ReqIds |-> IdleReq]
  /\ nextReq = 1
  /\ wiped = [k \in Keys |-> {}]
  /\ late = {}
  /\ typed = {}
  /\ uncaught = {}

(* ----------------------------- Socket.IO ------------------------------ *)
\* io.emit: to every connected socket
IoEmit(event, payload) == [event |-> event, to |-> Live, payload |-> payload]
\* socket.broadcast.emit: to every connected socket but the sender
BroadcastEmit(s, event, payload) == [event |-> event, to |-> Live \ {s}, payload |-> payload]
\* an emit that reaches the socket even after its disconnect
SocketEmitMut(s, event, payload) == [event |-> event, to |-> {s}, payload |-> payload]
\* socket.emit: to this socket, dropped when it is no longer connected
SocketEmit(s, event, payload) == [event |-> event, to |-> {s} \cap Live, payload |-> payload]

(* ------------------------- chat handlers ------------------------------ *)
\* res.status(..).json(..) of request r
Respond(q, status, body) == [q EXCEPT !.pc = "done", !.status = status, !.body = body]

\* chat messages still awaiting the provider on a key
Awaiting(key) == {q \in ReqIds : reqs[q].pc = "await" /\ reqs[q].key = key}

\* conversationHistory.get(historyKey) || []   (request r allocates array r)
getOrCreate(key, r) ==
  IF conversationHistory[key] = Absent THEN r ELSE conversationHistory[key]

\* lines 99-112 and 234-244: key, history, push of the user turn, messages;
\* the handler then suspends in the provider call
AppendUserTurn(r, path, sock, message, userId, conversationId, limit, events) ==
  LET key == historyKey(userId, conversationId)
      history == getOrCreate(key, r)
      pushed == push(heap[history], UserMessage(r, message))
      others == Awaiting(key)
  IN  /\ heap' = [heap EXCEPT ![history] = pushed]
      /\ reqs' = [q \in ReqIds |->
                    IF q = r
                    THEN [IdleReq EXCEPT !.pc = "await", !.path = path, !.sock = sock,
                                         !.message = message,
                                         !.userId = userId,
                                         !.conversationId = conversationId,
                                         !.key = key, !.history = history,
                                         !.messages = contextMessages(path, pushed, limit),
                                         !.events = events,
                                         !.startHist = StoredHistory(key),
                                         !.ahead = others,
                                         !.overlap = (others # {})]
                    ELSE IF q \in others THEN [reqs[q] EXCEPT !.overlap = TRUE]
                    ELSE reqs[q]]

\* lines 124-126 and 254-255: push of the assistant turn, conversationHistory.set
AppendAssistantTurn(r, text) ==
  /\ heap' = [heap EXCEPT ![reqs[r].history] = push(@, AssistantMessage(r, text))]
  /\ conversationHistory' = [conversationHistory EXCEPT ![reqs[r].key] = reqs[r].history]

\* a catch block that forgets the rate-limit classification
CatchStatusMut(code) ==
  IF code = "insufficient_quota" THEN 429
  ELSE 500

\* status the catch block of POST /api/chat sends for an error code
CatchStatus(code) ==
  IF code = "insufficient_quota" THEN 429
  ELSE IF code = "rate_limit_exceeded" THEN 429
  ELSE 500

\* body the catch block of POST /api/chat sends for an error code
CatchBody(code) ==
  IF code = "insufficient_quota"
  THEN [error |-> "API quota exceeded. Please try again later."]
  ELSE IF code = "rate_limit_exceeded"
  THEN [error |-> "Rate limit exceeded. Please wait a moment."]
  ELSE [error |-> "Internal server error. Please try again."]

\* catch (error): the handler of q leaves through its catch block
Caught(q, code) == [q EXCEPT !.error = code]

\* a request answered before it reaches the store
Rejected(path, sock, message, status, body, events) ==
  [Respond(IdleReq, status, body) EXCEPT !.path = path, !.sock = sock,
                                         !.message = message, !.events = events]

\* a handler that pushes the user turn before it validates the message
RestChatMut(message, userId, conversationId) ==
  LET r == nextReq IN
  /\ nextReq <= MaxReq
  /\ nextReq' = nextReq + 1
  /\ IF ~Truthy(message)
     THEN /\ reqs' = [reqs EXCEPT ![r] = Rejected("rest", NoSocket, message, 400,
                                                  [error |-> "Message is required"], <<>>)]
          /\ heap' = [heap EXCEPT ![getOrCreate(historyKey(userId, conversationId), r)] =
                        push(@, UserMessage(r, message))]
     ELSE IF message.type # "string"
     THEN \* message.trim is not a function: TypeError, caught at line 141
          /\ reqs' = [reqs EXCEPT ![r] = Caught(Rejected("rest", NoSocket, message,
                                                         CatchStatus("TypeError"),
                                                         CatchBody("TypeError"), <<>>),
                                                "TypeError")]
          /\ UNCHANGED heap
     ELSE IF trim(message.val) = <<>>
     THEN /\ reqs' = [reqs EXCEPT ![r] = Rejected("rest", NoSocket, message, 400,
                                                  [error |-> "Message is required"], <<>>)]
          /\ UNCHANGED heap
     ELSE AppendUserTurn(r, "rest", NoSocket, message, userId, conversationId, RestLimit, <<>>)
  /\ UNCHANGED <<conversationHistory, activeConnections, sockState, wiped, late, typed,
                 uncaught>>

\* app.post('/api/chat') up to the await
RestChat(message, userId, conversationId) ==
  LET r == nextReq IN
  /\ nextReq <= MaxReq
  /\ nextReq' = nextReq + 1
  /\ IF ~Truthy(message)
     THEN /\ reqs' = [reqs EXCEPT ![r] = Rejected("rest", NoSocket, message, 400,
                                                  [error |-> "Message is required"], <<>>)]
          /\ UNCHANGED heap
     ELSE IF message.type # "string"
     THEN \* message.trim is not a function: TypeError, caught at line 141
          /\ reqs' = [reqs EXCEPT ![r] = Caught(Rejected("rest", NoSocket, message,
                                                         CatchStatus("TypeError"),
                                                         CatchBody("TypeError"), <<>>),
                                                "TypeError")]
          /\ UNCHANGED heap
     ELSE IF trim(message.val) = <<>>
     THEN /\ reqs' = [reqs EXCEPT ![r] = Rejected("rest", NoSocket, message, 400,
                                                  [error |-> "Message is required"], <<>>)]
          /\ UNCHANGED heap
     ELSE AppendUserTurn(r, "rest", NoSocket, message, userId, conversationId, RestLimit, <<>>)
  /\ UNCHANGED <<conversationHistory, activeConnections, sockState, wiped, late, typed,
                 uncaught>>

\* a handler that also publishes the reply to the connected sockets
RestProviderSuccessMut(r, text) ==
  /\ reqs[r].pc = "await"
  /\ reqs[r].path = "rest"
  /\ AppendAssistantTurn(r, text)
  /\ reqs' = [reqs EXCEPT ![r] =
                [Respond(reqs[r], 200,
                         [response |-> text, conversationId |-> reqs[r].conversationId])
                   EXCEPT !.events =
                     Append(@, IoEmit("new-message", [message |-> text, sender |-> "ai"]))]]
  /\ UNCHANGED <<activeConnections, sockState, nextReq, wiped, late, typed, uncaught>>

\* lines 122-139: the provider call of REST request r returned text
RestProviderSuccess(r, text) ==
  /\ reqs[r].pc = "await"
  /\ reqs[r].path = "rest"
  /\ AppendAssistantTurn(r, text)
  /\ reqs' = [reqs EXCEPT ![r] = Respond(reqs[r], 200,
                                         [response |-> text,
                                          conversationId |-> reqs[r].conversationId])]
  /\ UNCHANGED <<activeConnections, sockState, nextReq, wiped, late, typed, uncaught>>

\* a catch block that records the failure as an assistant turn
RestProviderFailureMut(r, code) ==
  /\ reqs[r].pc = "await"
  /\ reqs[r].path = "rest"
  /\ heap' = [heap EXCEPT ![reqs[r].history] =
                push(@, AssistantMessage(r, Str(<<"e", "r", "r", "o", "r">>)))]
  /\ reqs' = [reqs EXCEPT ![r] = Respond(reqs[r], CatchStatus(code), CatchBody(code))]
  /\ UNCHANGED <<conversationHistory, activeConnections, sockState, nextReq, wiped, late,
                 typed, uncaught>>

\* lines 141-151: the provider call of REST request r was rejected
RestProviderFailure(r, code) ==
  /\ reqs[r].pc = "await"
  /\ reqs[r].path = "rest"
  /\ reqs' = [reqs EXCEPT ![r] = Caught(Respond(reqs[r], CatchStatus(code), CatchBody(code)),
                                        code)]
  /\ UNCHANGED <<conversationHistory, heap, activeConnections, sockState, nextReq, wiped,
                 late, typed, uncaught>>

\* an echo sent with socket.broadcast.emit
UserEchoMut(s, data) ==
  BroadcastEmit(s, "new-message",
                [message |-> data.message, sender |-> "user", userId |-> data.userId,
                 username |-> data.username, conversationId |-> data.conversationId])

\* lines 224-231: io.emit('new-message', { message, sender: 'user', ... })
UserEcho(s, data) ==
  IoEmit("new-message",
         [message |-> data.message, sender |-> "user", userId |-> data.userId,
          username |-> data.username, conversationId |-> data.conversationId])

\* a reply that carries no conversationId
AiReplyMut(conversationId, text) ==
  IoEmit("new-message", [message |-> text, sender |-> "ai", conversationId |-> Undefined])

\* lines 258-263: io.emit('new-message', { message: aiResponse, sender: 'ai', ... })
AiReply(conversationId, text) ==
  IoEmit("new-message", [message |-> text, sender |-> "ai", conversationId |-> conversationId])

\* an error notice sent with io.emit
ErrorNoticeMut(s) == IoEmit("error", [message |-> "Failed to process message"])

\* line 267: socket.emit('error', { message: 'Failed to process message' })
ErrorNotice(s) == SocketEmit(s, "error", [message |-> "Failed to process message"])

\* socket.on('send-message') up to the await
SendMessage(s, data) ==
  LET r == nextReq IN
  /\ sockState[s] = "open"
  /\ nextReq <= MaxReq
  /\ nextReq' = nextReq + 1
  /\ IF data = Undefined
     THEN \* destructuring undefined: TypeError, caught at line 265
          /\ reqs' = [reqs EXCEPT ![r] =
                        Caught(Rejected("socket", s, Undefined, 0, Undefined,
                                        <<ErrorNotice(s)>>),
                               "TypeError")]
          /\ UNCHANGED heap
     ELSE AppendUserTurn(r, "socket", s, data.message, data.userId, data.conversationId,
                         SocketLimit, <<UserEcho(s, data)>>)
  /\ UNCHANGED <<conversationHistory, activeConnections, sockState, wiped, late, typed,
                 uncaught>>

\* lines 253-263: the provider call of real-time message r returned text
SocketProviderSuccess(r, text) ==
  /\ reqs[r].pc = "await"
  /\ reqs[r].path = "socket"
  /\ AppendAssistantTurn(r, text)
  /\ reqs' = [reqs EXCEPT ![r] =
                [Respond(reqs[r], 200, Undefined) EXCEPT !.events =
                   Append(@, AiReply(reqs[r].conversationId, text))]]
  /\ UNCHANGED <<activeConnections, sockState, nextReq, wiped, late, typed, uncaught>>

\* a catch block that also drops the sender from the registry
SocketProviderFailureMut(r, code) ==
  /\ reqs[r].pc = "await"
  /\ reqs[r].path = "socket"
  /\ reqs' = [reqs EXCEPT ![r] =
                [Caught(Respond(reqs[r], 0, Undefined), "rejected") EXCEPT !.events =
                   Append(@, ErrorNotice(reqs[r].sock))]]
  /\ activeConnections' = [activeConnections EXCEPT ![reqs[r].sock] = Undefined]
  /\ UNCHANGED <<conversationHistory, heap, sockState, nextReq, wiped, late, typed,
                 uncaught>>

\* lines 265-268: the provider call of real-time message r was rejected; this
\* catch block does not read error.code
SocketProviderFailure(r, code) ==
  /\ reqs[r].pc = "await"
  /\ reqs[r].path = "socket"
  /\ reqs' = [reqs EXCEPT ![r] =
                [Caught(Respond(reqs[r], 0, Undefined), "rejected") EXCEPT !.events =
                   Append(@, ErrorNotice(reqs[r].sock))]]
  /\ UNCHANGED <<conversationHistory, heap, activeConnections, sockState, nextReq, wiped,
                 late, typed, uncaught>>

(* -------------------- serverless chat function ------------------------ *)
\* req.method
Methods == {"POST", "GET"}
\* message fields of a body sent to the function
ApiMessages == {Str(<<"h", "i">>), Str(<<>>), Undefined}
\* an array value of a body
Arr(seq) == [type |-> "array", val |-> seq]
\* conversationHistory fields of a body: omitted (default []), null, one
\* earlier pair, and more messages than either window of the server keeps
ClientHistories ==
  {Undefined, Null,
   Arr(<<UserMessage(0, Str(<<"h", "i">>)),
         AssistantMessage(0, Str(<<"h", "e", "l", "l", "o">>))>>),
   Arr(InitPairs(MaxInitPairs + 1))}
\* req.body: undefined when the request carries no body, else the parsed object
ApiBodies ==
  {Undefined} \cup
  {[message |-> m, conversationHistory |-> h] : m \in ApiMessages, h \in ClientHistories}
\* error texts of the provider: errorData.error.message, or the message of
\* the error a failed fetch throws
ProviderDetails == {<<"x">>, <<"y">>}

\* a list that keeps only the last ten messages of the history
apiMessagesMut(r, history, message) ==
  <<SystemMessage("api")>> \o slice(history, 0 - RestLimit) \o <<UserMessage(r, message)>>

\* messages = [ system, ...conversationHistory, { role: 'user', content: message } ]
apiMessages(r, history, message) ==
  <<SystemMessage("api")>> \o history \o <<UserMessage(r, message)>>

\* body of the catch block of the function
apiCatchBody(text) == [error |-> "Failed to process chat request", details |-> Str(text)]

\* an invocation that ends in the catch block before any provider call
apiThrown(method, body, message) ==
  [Caught(Rejected("api", NoSocket, message, 500, apiCatchBody(<<"TypeError">>), <<>>),
          "TypeError")
     EXCEPT !.request = [method |-> method, body |-> body]]

\* handler(req, res) up to the await of fetch
ApiHandler(method, body) ==
  LET r == nextReq
      request == [method |-> method, body |-> body]
  IN
  /\ nextReq <= MaxReq
  /\ nextReq' = nextReq + 1
  /\ reqs' = [reqs EXCEPT ![r] =
       IF method # "POST"
       THEN [Rejected("api", NoSocket, Undefined, 405, [error |-> "Method not allowed"], <<>>)
               EXCEPT !.request = request]
       ELSE IF body \in {Undefined, Null}
       THEN \* destructuring of undefined: TypeError, caught at line 60
            apiThrown(method, body, Undefined)
       ELSE IF ~Truthy(body.message)
       THEN [Rejected("api", NoSocket, body.message, 400,
                      [error |-> "Message is required"], <<>>)
               EXCEPT !.request = request]
       ELSE IF body.conversationHistory = Null
       THEN \* ...null: not iterable, TypeError, caught at line 60
            apiThrown(method, body, body.message)
       ELSE LET history == IF body.conversationHistory = Undefined THEN <<>>
                           ELSE body.conversationHistory.val
            IN  [IdleReq EXCEPT !.pc = "await", !.path = "api", !.message = body.message,
                                !.request = request,
                                !.messages = apiMessages(r, history, body.message)]]
  /\ UNCHANGED <<conversationHistory, heap, activeConnections, sockState, wiped, late,
                 typed, uncaught>>

\* lines 50-58: the provider answered with a completion
ApiFetchOk(r, text) ==
  /\ reqs[r].pc = "await"
  /\ reqs[r].path = "api"
  /\ reqs' = [reqs EXCEPT ![r] = Respond(reqs[r], 200, [success |-> TRUE, reply |-> text])]
  /\ UNCHANGED <<conversationHistory, heap, activeConnections, sockState, nextReq, wiped,
                 late, typed, uncaught>>

\* lines 45-48 and 60-65: the provider answered with an error status
ApiFetchNotOk(r, detail) ==
  /\ reqs[r].pc = "await"
  /\ reqs[r].path = "api"
  /\ reqs' = [reqs EXCEPT ![r] =
                Caught(Respond(reqs[r], 500,
                               apiCatchBody(<<"DeepSeek API error: ">> \o detail)),
                       "not_ok")]
  /\ UNCHANGED <<conversationHistory, heap, activeConnections, sockState, nextReq, wiped,
                 late, typed, uncaught>>

\* lines 31 and 60-65: fetch itself threw
ApiFetchThrows(r, detail) ==
  /\ reqs[r].pc = "await"
  /\ reqs[r].path = "api"
  /\ reqs' = [reqs EXCEPT ![r] =
                Caught(Respond(reqs[r], 500, apiCatchBody(detail)), "fetch_failed")]
  /\ UNCHANGED <<conversationHistory, heap, activeConnections, sockState, nextReq, wiped,
                 late, typed, uncaught>>

(* --------------------- conversation deletion -------------------------- *)
\* a delete that empties the whole map
mapDeleteMut(map, key) == [k \in DOMAIN map |-> Absent]
\* Map.prototype.delete
mapDelete(map, key) == [map EXCEPT ![key] = Absent]

\* app.delete('/api/conversations/:userId/:conversationId')
ClearHistory(userId, conversationId) ==
  LET key == historyKey(userId, conversationId) IN
  /\ conversationHistory' = mapDelete(conversationHistory, key)
  /\ wiped' = [wiped EXCEPT ![key] = @ \cup {StoredHistory(key)[i] :
                                                i \in 1 .. Len(StoredHistory(key))}]
  /\ UNCHANGED <<heap, activeConnections, sockState, reqs, nextReq, late, typed, uncaught>>

(* -------------------------- connections ------------------------------- *)
\* Map.prototype.size of activeConnections
ConnectionCount == Cardinality({s \in SocketIds : activeConnections[s] # Undefined})

\* body of GET /api/health
Health == [status |-> "healthy", activeConnections |-> ConnectionCount]

\* io.on('connection'); "s1" names the socket that connects first
Connection(s) ==
  /\ sockState[s] = "new"
  /\ s = "s2" => sockState["s1"] # "new"
  /\ sockState' = [sockState EXCEPT ![s] = "open"]
  /\ activeConnections' = [activeConnections EXCEPT ![s] = [socketId |-> s, userId |-> Null]]
  /\ UNCHANGED <<conversationHistory, heap, reqs, nextReq, wiped, late, typed, uncaught>>

\* an identify handler that writes the record without looking it up
IdentifyMut(s, userData) ==
  /\ sockState[s] \in {"open", "closed"}
  /\ activeConnections' =
       [activeConnections EXCEPT ![s] = [socketId |-> s,
                                         userId |-> userData.userId,
                                         username |-> userData.username]]
  /\ late' = IF sockState[s] = "closed" THEN late \cup {<<s, "identify">>} ELSE late
  /\ UNCHANGED <<conversationHistory, heap, sockState, reqs, nextReq, wiped, typed, uncaught>>

\* socket.on('identify'); the event may be handled after the disconnect of s
Identify(s, userData) ==
  /\ sockState[s] \in {"open", "closed"}
  /\ LET connection == activeConnections[s] IN
     IF connection = Undefined
     THEN UNCHANGED <<activeConnections, uncaught>>
     ELSE IF userData = Undefined
     THEN \* userData.userId of undefined: TypeError, no catch around it
          /\ uncaught' = uncaught \cup {<<s, "identify">>}
          /\ UNCHANGED activeConnections
     ELSE /\ activeConnections' =
               [activeConnections EXCEPT ![s] = [socketId |-> connection.socketId,
                                                 userId |-> userData.userId,
                                                 username |-> userData.username]]
          /\ UNCHANGED uncaught
  /\ late' = IF sockState[s] = "closed" THEN late \cup {<<s, "identify">>} ELSE late
  /\ UNCHANGED <<conversationHistory, heap, sockState, reqs, nextReq, wiped, typed>>

\* a typing handler that forwards to every connection
TypingMut(s, data) ==
  /\ sockState[s] = "open"
  /\ data # Undefined
  /\ typed' = typed \cup {[from |-> s,
                           emit |-> IoEmit("user-typing",
                                           [userId |-> data.userId,
                                            username |-> data.username,
                                            isTyping |-> data.isTyping])]}
  /\ UNCHANGED <<conversationHistory, heap, activeConnections, sockState, reqs, nextReq,
                 wiped, late, uncaught>>

\* socket.on('typing')
Typing(s, data) ==
  /\ sockState[s] = "open"
  /\ IF data = Undefined
     THEN \* data.userId of undefined: TypeError, no catch around it
          /\ uncaught' = uncaught \cup {<<s, "typing">>}
          /\ UNCHANGED typed
     ELSE /\ typed' = typed \cup {[from |-> s,
                                   emit |-> BroadcastEmit(s, "user-typing",
                                                          [userId |-> data.userId,
                                                           username |-> data.username,
                                                           isTyping |-> data.isTyping])]}
          /\ UNCHANGED uncaught
  /\ UNCHANGED <<conversationHistory, heap, activeConnections, sockState, reqs, nextReq,
                 wiped, late>>

\* a disconnect handler that keeps the record
DisconnectMut(s) ==
  /\ sockState[s] \in {"open", "closed"}
  /\ sockState' = [sockState EXCEPT ![s] = "closed"]
  /\ late' = IF sockState[s] = "closed" THEN late \cup {<<s, "disconnect">>} ELSE late
  /\ UNCHANGED <<conversationHistory, heap, activeConnections, reqs, nextReq, wiped, typed,
                 uncaught>>

\* socket.on('disconnect'); a second disconnect of s finds no record
Disconnect(s) ==
  /\ sockState[s] \in {"open", "closed"}
  /\ sockState' = [sockState EXCEPT ![s] = "closed"]
  /\ activeConnections' = [activeConnections EXCEPT ![s] = Undefined]
  /\ late' = IF sockState[s] = "closed" THEN late \cup {<<s, "disconnect">>} ELSE late
  /\ UNCHANGED <<conversationHistory, heap, reqs, nextReq, wiped, typed, uncaught>>

\* the steps of the server when the sockets of Socks connect and send the
\* payloads of Payloads, every event of a socket handled before its disconnect
NextOn(Socks, Payloads) ==
  \/ \E m \in RestMessages, u \in UserIds, c \in ConvIds : RestChat(m, u, c)
  \/ \E r \in ReqIds, t \in Replies : RestProviderSuccess(r, t)
  \/ \E r \in ReqIds, e \in ErrorCodes : RestProviderFailure(r, e)
  \/ \E u \in UserIds, c \in ConvIds : ClearHistory(u, c)
  \/ \E s \in Socks : Connection(s)
  \/ \E s \in Socks, d \in IdentifyPayloads : sockState[s] = "open" /\ Identify(s, d)
  \/ \E s \in Socks, d \in Payloads : SendMessage(s, d)
  \/ \E r \in ReqIds, t \in Replies : SocketProviderSuccess(r, t)
  \/ \E r \in ReqIds, e \in ErrorCodes : SocketProviderFailure(r, e)
  \/ \E s \in Socks : sockState[s] = "open" /\ Disconnect(s)

Next == NextOn(SocketIds, SocketPayloads)

Spec == Init /\ [][Next]_vars

\* the real-time channel alone: two clients that send text messages, every
\* event of a socket handled before its disconnect
NextRealtime ==
  \/ \E s \in SocketIds : Connection(s)
  \/ \E s \in SocketIds, d \in IdentifyPayloads : sockState[s] = "open" /\ Identify(s, d)
  \/ \E s \in SocketIds, d \in RoomPayloads : SendMessage(s, d)
  \/ \E r \in ReqIds, t \in Replies : SocketProviderSuccess(r, t)
  \/ \E r \in ReqIds, e \in ErrorCodes : SocketProviderFailure(r, e)
  \/ \E s \in SocketIds : sockState[s] = "open" /\ Disconnect(s)

SpecRealtime == Init /\ [][NextRealtime]_vars

\* the REST routes called with the identifiers of KeyPairs
NextKeys ==
  \/ \E p \in KeyPairs : RestChat(Str(<<"h", "i">>), p[1], p[2])
  \/ \E r \in ReqIds, t \in Replies : RestProviderSuccess(r, t)
  \/ \E r \in ReqIds, e \in ErrorCodes : RestProviderFailure(r, e)
  \/ \E p \in KeyPairs : ClearHistory(p[1], p[2])

SpecKeys == Init /\ [][NextKeys]_vars

\* the side channel: two clients that identify, type, send one message and
\* leave, with and without payloads, until a handler lets an exception escape
\* and ends the process
NextEvents ==
  \/ \E s \in SocketIds : uncaught = {} /\ Connection(s)
  \/ \E s \in SocketIds, d \in IdentityPayloads :
       uncaught = {} /\ sockState[s] = "open" /\ Identify(s, d)
  \/ \E s \in SocketIds, d \in TypingPayloads : uncaught = {} /\ Typing(s, d)
  \/ \E s \in SocketIds, d \in RoomPayloads :
       uncaught = {} /\ nextReq = 1 /\ SendMessage(s, d)
  \/ \E r \in ReqIds, t \in Replies : uncaught = {} /\ SocketProviderSuccess(r, t)
  \/ \E r \in ReqIds, e \in ErrorCodes : uncaught = {} /\ SocketProviderFailure(r, e)
  \/ \E s \in SocketIds : uncaught = {} /\ sockState[s] = "open" /\ Disconnect(s)

SpecEvents == Init /\ [][NextEvents]_vars

\* the provider call of message r returns or is rejected, in a process that
\* is still running
ProviderReturns(r) ==
  /\ uncaught = {}
  /\ \/ \E t \in Replies : RestProviderSuccess(r, t) \/ SocketProviderSuccess(r, t)
     \/ \E e \in ErrorCodes : RestProviderFailure(r, e) \/ SocketProviderFailure(r, e)

\* the server that takes chat messages on both channels and typing events
\* from one client, until a handler lets an exception escape and ends the
\* process
NextLive ==
  \/ uncaught = {} /\ Connection("s1")
  \/ \E m \in RestMessages, u \in UserIds :
       uncaught = {} /\ RestChat(m, u, Str(<<"b">>))
  \/ \E d \in RoomPayloads : uncaught = {} /\ SendMessage("s1", d)
  \/ \E d \in TypingPayloads : uncaught = {} /\ Typing("s1", d)
  \/ \E r \in ReqIds, t \in Replies : uncaught = {} /\ RestProviderSuccess(r, t)
  \/ \E r \in ReqIds, e \in ErrorCodes : uncaught = {} /\ RestProviderFailure(r, e)
  \/ \E r \in ReqIds, t \in Replies : uncaught = {} /\ SocketProviderSuccess(r, t)
  \/ \E r \in ReqIds, e \in ErrorCodes : uncaught = {} /\ SocketProviderFailure(r, e)
  \/ uncaught = {} /\ sockState["s1"] = "open" /\ Disconnect("s1")

\* every provider call eventually returns or is rejected
SpecLive == Init /\ [][NextLive]_vars /\ \A r \in ReqIds : WF_vars(ProviderReturns(r))

\* the provider calls of both channels: text messages over REST and from one
\* real-time client
NextVariants ==
  \/ \E u \in UserIds, c \in ConvIds : RestChat(Str(<<"h", "i">>), u, c)
  \/ \E r \in ReqIds, t \in Replies : RestProviderSuccess(r, t)
  \/ \E r \in ReqIds, e \in ErrorCodes : RestProviderFailure(r, e)
  \/ \E u \in UserIds, c \in ConvIds : ClearHistory(u, c)
  \/ Connection("s1")
  \/ \E d \in RoomPayloads : SendMessage("s1", d)
  \/ \E r \in ReqIds, t \in Replies : SocketProviderSuccess(r, t)
  \/ \E r \in ReqIds, e \in ErrorCodes : SocketProviderFailure(r, e)

SpecVariants == Init /\ [][NextVariants]_vars

\* the serverless function of api/chat.js
NextApi ==
  \/ \E m \in Methods, b \in ApiBodies : ApiHandler(m, b)
  \/ \E r \in ReqIds, t \in Replies : ApiFetchOk(r, t)
  \/ \E r \in ReqIds, d \in ProviderDetails : ApiFetchNotOk(r, d)
  \/ \E r \in ReqIds, d \in ProviderDetails : ApiFetchThrows(r, d)

SpecApi == Init /\ [][NextApi]_vars

\* the connection registry: two clients whose events may be handled after
\* their disconnect, and one real-time message
NextRegistry ==
  \/ \E s \in SocketIds : Connection(s)
  \/ \E s \in SocketIds, d \in IdentifyPayloads : Identify(s, d)
  \/ \E s \in SocketIds, d \in RoomPayloads : nextReq = 1 /\ SendMessage(s, d)
  \/ \E r \in ReqIds, t \in Replies : SocketProviderSuccess(r, t)
  \/ \E r \in ReqIds, e \in ErrorCodes : SocketProviderFailure(r, e)
  \/ \E u \in UserIds, c \in ConvIds : ClearHistory(u, c)
  \/ \E s \in SocketIds : Disconnect(s)

SpecRegistry == Init /\ [][NextRegistry]_vars

\* the server with a single real-time client that sends text messages
NextStore == NextOn({"s1"}, TextPayloads)

SpecStore == Init /\ [][NextStore]_vars

(* ====================== properties of the server ====================== *)
Range(seq) == {seq[i] : i \in 1 .. Len(seq)}
Count(seq, m) == Cardinality({i \in 1 .. Len(seq) : seq[i] = m})
IsPrefix(a, b) == Len(a) <= Len(b) /\ SubSeq(b, 1, Len(a)) = a

\* request r reached the conversation store
Started(r) == reqs[r].pc \in {"await", "done"} /\ reqs[r].key \in Keys
Succeeded(r) == Started(r) /\ reqs[r].pc = "done" /\ reqs[r].status = 200
Failed(r) == Started(r) /\ reqs[r].pc = "done" /\ reqs[r].status # 200
UserTurn(r) == UserMessage(r, reqs[r].message)
AssistantTurns(r) == {AssistantMessage(r, t) : t \in Replies}
\* the array the handler of r holds right before its provider call
HistAtCall(r) == Append(reqs[r].startHist, UserTurn(r))
\* the step in which the provider call of r returns text
SucceedsNow(r) == reqs[r].pc = "await" /\ reqs'[r].pc = "done" /\ reqs'[r].status = 200
\* the step in which the handler of r leaves through its catch block
FailsNow(r) == reqs[r].pc # "done" /\ reqs'[r].pc = "done" /\ reqs'[r].status # 200
\* no DELETE removed a message r read or wrote
Untouched(r) == (Range(reqs[r].startHist) \cup {UserTurn(r)}) \cap wiped[reqs[r].key] = {}
AssistantCount(seq) == Cardinality({i \in 1 .. Len(seq) : seq[i].role = "assistant"})

\* C1: a successful POST /api/chat that no other chat message on its key
\* overlapped leaves, as the stored history of the key, the history it found
\* followed by its user turn and then its assistant turn; the GET of the key
\* then returns these messages and messageCount is their number, and the
\* caller receives the reply.
C1_RestAppendsUserThenAssistant ==
  [][\A r \in ReqIds :
       (SucceedsNow(r) /\ reqs[r].path = "rest" /\ ~reqs[r].overlap) =>
         \E t \in Replies :
           LET got == GetConversation(reqs[r].userId, reqs[r].conversationId)'
               want == reqs[r].startHist \o <<UserTurn(r), AssistantMessage(r, t)>>
           IN  /\ got.messages = want
               /\ got.messageCount = Len(reqs[r].startHist) + 2
               /\ reqs'[r].body.response = t]_vars

\* C1 witness: a POST on a key without history succeeded alone, and the GET
\* of its key returns its two messages.
C1_Witness ==
  \E r \in ReqIds :
    /\ Succeeded(r) /\ reqs[r].path = "rest" /\ ~reqs[r].overlap
    /\ reqs[r].startHist = <<>>
    /\ GetConversation(reqs[r].userId, reqs[r].conversationId).messageCount = 2

\* C2: in every stored history an assistant turn immediately follows the user
\* turn of the same inbound message.
C2_AssistantFollowsItsUserTurn ==
  \A k \in Keys :
    LET h == StoredHistory(k) IN
    \A i \in 1 .. Len(h) :
      h[i].role = "assistant" =>
        i > 1 /\ h[i - 1].role = "user" /\ h[i - 1].req = h[i].req

\* C3: the messages sent to the provider for B never hold the user turn of a
\* message A that was in flight on the key when B arrived without holding
\* the assistant turn of A.
C3_ContextNeverSeesPartialAppend ==
  \A b \in ReqIds :
    Started(b) =>
      \A a \in reqs[b].ahead :
        UserTurn(a) \in Range(reqs[b].messages) =>
          AssistantTurns(a) \cap Range(reqs[b].messages) # {}

\* C4: once the chat messages on a key have all completed, the stored history
\* of the key holds the user turn and the assistant turn of every successful
\* one exactly once, unless a DELETE removed them.
C4_NoLostWrite ==
  \A r \in ReqIds :
    (Succeeded(r) /\ Awaiting(reqs[r].key) = {}) =>
      LET h == StoredHistory(reqs[r].key) IN
      /\ UserTurn(r) \in wiped[reqs[r].key] \/ Count(h, UserTurn(r)) = 1
      /\ \E t \in Replies :
           AssistantMessage(r, t) \in wiped[reqs[r].key]
             \/ Count(h, AssistantMessage(r, t)) = 1

\* C5: when the provider call of a chat message fails (no other chat message
\* on its key overlapping, no DELETE in between), the stored history of the
\* key is the history the handler found followed by the user turn only.
C5_FailureKeepsUserTurn ==
  [][\A r \in ReqIds :
       (FailsNow(r) /\ Started(r) /\ ~reqs[r].overlap /\ Untouched(r)) =>
         StoredHistoryNext(reqs[r].key) = HistAtCall(r)]_vars

\* C6: the step in which a handler leaves through its catch block changes the
\* number of assistant turns of no stored history, and no stored history ever
\* holds an assistant turn of a failed message.
C6_FailureAddsNoAssistantTurn ==
  /\ [][\A r \in ReqIds :
          FailsNow(r) =>
            \A k \in Keys :
              AssistantCount(StoredHistoryNext(k)) = AssistantCount(StoredHistory(k))]_vars
  /\ [](\A r \in ReqIds, a \in ArrIds :
          (reqs[r].pc = "done" /\ reqs[r].status # 200) =>
            \A i \in 1 .. Len(heap[a]) :
              ~(heap[a][i].role = "assistant" /\ heap[a][i].req = r))

\* C6 witness: a provider call failed on a key that has a stored history, and
\* the user turn of the failed message is stored.
C6_Witness ==
  \E r \in ReqIds :
    /\ Failed(r)
    /\ UserTurn(r) \in Range(StoredHistory(reqs[r].key))

\* C7: no message a DELETE removed from the history of a key is ever again
\* in the stored history of that key.
C7_NoResidueAfterDelete ==
  \A k \in Keys : Range(StoredHistory(k)) \cap wiped[k] = {}

\* C8: the messages sent to the provider are one system message followed by
\* the last min(N, length) messages of the handler's history in order, N = 10
\* for POST /api/chat and N = 8 for 'send-message'; no other system message.
C8_ContextWindow ==
  \A r \in ReqIds :
    Started(r) =>
      LET h == HistAtCall(r)
          N == IF reqs[r].path = "rest" THEN 10 ELSE 8
          n == IF N < Len(h) THEN N ELSE Len(h)
          m == reqs[r].messages
      IN  /\ Len(m) = n + 1
          /\ m[1].role = "system"
          /\ \A i \in 1 .. n : m[i + 1] = h[Len(h) - n + i]
          /\ \A i \in 2 .. Len(m) : m[i].role # "system"

\* C8 witness: a POST whose history is longer than 10 and a real-time message
\* whose history has length 1 have both been sent to the provider.
C8_Witness ==
  /\ \E r \in ReqIds :
       Started(r) /\ reqs[r].path = "rest" /\ Len(HistAtCall(r)) > 10
         /\ Len(reqs[r].messages) = 11
  /\ \E r \in ReqIds :
       Started(r) /\ reqs[r].path = "socket" /\ Len(HistAtCall(r)) = 1
         /\ Len(reqs[r].messages) = 2

\* C9: while the provider call of a chat message is in flight (and no DELETE
\* removed what it read or wrote), the stored history of its key starts with
\* the history the handler found and holds the user turn after it.
C9_AppendVisibleToRead ==
  \A r \in ReqIds :
    (reqs[r].pc = "await" /\ Untouched(r)) =>
      LET h == StoredHistory(reqs[r].key)
          n == Len(reqs[r].startHist)
      IN  /\ IsPrefix(reqs[r].startHist, h)
          /\ UserTurn(r) \in Range(SubSeq(h, n + 1, Len(h)))

\* C10: in every step that does not delete the history of a key, the stored
\* history of the key before the step is a prefix of the one after it.
C10_HistoryOnlyGrows ==
  [][\A k \in Keys :
       ~(conversationHistory[k] # Absent /\ conversationHistory'[k] = Absent) =>
         IsPrefix(StoredHistory(k), StoredHistoryNext(k))]_vars

\* the message of a request is missing, empty or only whitespace
Blank(message) ==
  \/ message = Undefined
  \/ message.type = "string" /\ \A i \in 1 .. Len(message.val) : message.val[i] = " "

SocketFailsNow(r) ==
  /\ reqs[r].path = "socket" /\ reqs[r].pc = "await"
  /\ reqs'[r].pc = "done" /\ reqs'[r].status # 200
\* positions of the events named event that the handler of r emitted
EventsOf(q, event) == {i \in 1 .. Len(q.events) : q.events[i].event = event}

\* C12: when the provider call of a real-time message fails, the handler
\* emits exactly one 'error' event, addressed to the originating connection
\* and to no other one, and it publishes no 'new-message' of the assistant
\* for that message.
C12_ErrorToOriginatorOnly ==
  [][\A r \in ReqIds :
       SocketFailsNow(r) =>
         LET ev == reqs'[r].events IN
         /\ Cardinality(EventsOf(reqs'[r], "error")) = 1
         /\ \A i \in EventsOf(reqs'[r], "error") :
              /\ ev[i].to \subseteq {reqs[r].sock}
              /\ reqs[r].sock \in Live => ev[i].to = {reqs[r].sock}
         /\ \A i \in EventsOf(reqs'[r], "new-message") : ev[i].payload.sender = "user"
         /\ EventsOf(reqs'[r], "error") \cup EventsOf(reqs'[r], "new-message")
              = 1 .. Len(ev)]_vars

\* C12 witness: the provider call of a message failed while two connections
\* were live; both got the echo and only the originator got the error.
C12_Witness ==
  \E r \in ReqIds :
    /\ reqs[r].path = "socket" /\ reqs[r].pc = "done" /\ reqs[r].error = "rejected"
    /\ Len(reqs[r].events) = 2
    /\ reqs[r].events[1].to = SocketIds
    /\ reqs[r].events[2].event = "error"
    /\ reqs[r].events[2].to = {reqs[r].sock}

\* the step in which send-message takes a payload and calls the provider
SocketCallsNow(r) ==
  reqs[r].pc = "idle" /\ reqs'[r].path = "socket" /\ reqs'[r].pc = "await"
\* the step in which the provider call of a real-time message r returns
SocketReturnsNow(r) ==
  reqs[r].path = "socket" /\ reqs[r].pc = "await" /\ reqs'[r].pc = "done"
IsUserEcho(e, q) ==
  /\ e.event = "new-message"
  /\ e.payload.sender = "user"
  /\ e.payload.message = q.message
  /\ e.payload.conversationId = q.conversationId

\* C13: when send-message calls the provider it has published the raw user
\* message, and nothing else, as a 'new-message' tagged sender 'user' to every
\* connection live at that moment, the originator included; whatever the
\* provider call returns, the echo stays the first event of the message and
\* the event published on return comes after it.
C13_EchoBeforeProviderCall ==
  [][\A r \in ReqIds :
       /\ SocketCallsNow(r) =>
            /\ Len(reqs'[r].events) = 1
            /\ IsUserEcho(reqs'[r].events[1], reqs'[r])
            /\ reqs'[r].events[1].to = Live
            /\ reqs'[r].sock \in reqs'[r].events[1].to
       /\ SocketReturnsNow(r) =>
            /\ Len(reqs[r].events) = 1
            /\ IsUserEcho(reqs[r].events[1], reqs[r])
            /\ Len(reqs'[r].events) = 2
            /\ reqs'[r].events[1] = reqs[r].events[1]
            /\ ~IsUserEcho(reqs'[r].events[2], reqs[r])]_vars

\* C13 witness: one message was echoed to both connections and then failed at
\* the provider, another was echoed and then answered.
C13_Witness ==
  /\ \E r \in ReqIds :
       /\ reqs[r].path = "socket" /\ reqs[r].pc = "done" /\ reqs[r].status # 200
       /\ IsUserEcho(reqs[r].events[1], reqs[r])
       /\ reqs[r].events[1].to = SocketIds
  /\ \E r \in ReqIds :
       /\ reqs[r].path = "socket" /\ reqs[r].pc = "done" /\ reqs[r].status = 200
       /\ IsUserEcho(reqs[r].events[1], reqs[r])
       /\ reqs[r].events[2].payload.sender = "ai"

\* the step in which the provider call of a real-time message r returns text
\* and the handler publishes the reply under the sender tag
PublishesReply(r, tag) ==
  (SocketReturnsNow(r) /\ reqs'[r].status = 200) =>
    \E t \in Replies :
      /\ AssistantMessage(r, t) \in Range(heap'[reqs[r].history])
      /\ reqs'[r].events[2] =
           [event |-> "new-message", to |-> Live,
            payload |-> [message |-> t, sender |-> tag,
                         conversationId |-> reqs[r].conversationId]]

\* C14 as stated: the reply of a successful real-time message is published to
\* all live connections as a 'new-message' with sender 'assistant' and the
\* conversationId of the inbound message.
C14_ReplyTaggedAssistant == [][\A r \in ReqIds : PublishesReply(r, "assistant")]_vars

\* C14: when the provider succeeds, the reply of a real-time message is
\* published to all connections live at that moment as a 'new-message' whose
\* sender tag is 'ai', carrying the conversationId of the inbound message.
C14_ReplyTaggedAi == [][\A r \in ReqIds : PublishesReply(r, "ai")]_vars

\* C14 witness: a reply was published to both connections.
C14_Witness ==
  \E r \in ReqIds :
    /\ reqs[r].path = "socket" /\ reqs[r].pc = "done" /\ reqs[r].status = 200
    /\ reqs[r].events[2].to = SocketIds
    /\ reqs[r].events[2].payload.conversationId = Str(<<"b">>)

\* C15: a 'send-message' event whose message is missing, empty or only
\* whitespace is rejected as invalid input: it is not broadcast, no turn of it
\* is appended to a history, and no provider call is made for it.
C15_RealtimeValidates ==
  \A r \in ReqIds :
    (reqs[r].path = "socket" /\ Blank(reqs[r].message)) =>
      /\ EventsOf(reqs[r], "new-message") = {}
      /\ \A a \in ArrIds : UserTurn(r) \notin Range(heap[a])
      /\ reqs[r].pc = "done" /\ reqs[r].messages = <<>>

\* C16: when the originating connection of a real-time message has
\* disconnected before its provider call returns, the call still completes:
\* on success the assistant turn is appended to the array of the conversation,
\* stored under its key and published to the connections that remain; on
\* failure the error notification reaches no one and the histories stay as
\* they are; either way the registry is unchanged and holds no record of the
\* disconnected connection.
C16_OriginatorGone ==
  [][\A r \in ReqIds :
       (SocketReturnsNow(r) /\ sockState[reqs[r].sock] = "closed") =>
         LET h == reqs[r].history
             last == reqs'[r].events[Len(reqs'[r].events)]
         IN
         /\ reqs'[r].status = 200 =>
              /\ \E t \in Replies :
                   /\ heap'[h] = Append(heap[h], AssistantMessage(r, t))
                   /\ last.payload.message = t
              /\ conversationHistory'[reqs[r].key] = h
              /\ last.event = "new-message" /\ last.payload.sender = "ai"
              /\ last.to = Live /\ reqs[r].sock \notin last.to
         /\ reqs'[r].status # 200 =>
              /\ last.event = "error" /\ last.to = {}
              /\ heap' = heap /\ conversationHistory' = conversationHistory
         /\ activeConnections' = activeConnections
         /\ activeConnections'[reqs[r].sock] = Undefined
         /\ sockState' = sockState]_vars

\* C16 witness: two messages whose originator left during the provider call;
\* the reply of one went to the other connection alone, the error notice of
\* the other went to no one.
C16_Witness ==
  /\ \E r \in ReqIds :
       /\ reqs[r].path = "socket" /\ reqs[r].status = 200
       /\ reqs[r].sock \in reqs[r].events[1].to
       /\ reqs[r].events[2].to = SocketIds \ {reqs[r].sock}
       /\ activeConnections[reqs[r].sock] = Undefined
  /\ \E r \in ReqIds :
       /\ reqs[r].path = "socket" /\ reqs[r].error = "rejected"
       /\ reqs[r].sock \in reqs[r].events[1].to
       /\ reqs[r].events[2].to = {}

\* the step in which the event named event of socket s is first handled after
\* the disconnect of s
LateNow(s, event) == <<s, event>> \in late' \ late

\* C17: an 'identify' handled for a connection that is no longer in the
\* registry completes and leaves the registry and every history unchanged; the
\* removed connection is not created again.
C17_LateIdentify ==
  [][\A s \in SocketIds :
       LateNow(s, "identify") =>
         /\ activeConnections[s] = Undefined
         /\ activeConnections' = activeConnections
         /\ conversationHistory' = conversationHistory /\ heap' = heap
         /\ sockState' = sockState /\ reqs' = reqs]_vars

\* C17 witness: an identify was handled after the disconnect of its
\* connection while another connection was registered and a history stored.
C17_Witness ==
  \E s \in SocketIds :
    /\ <<s, "identify">> \in late
    /\ activeConnections[s] = Undefined
    /\ \E o \in SocketIds \ {s} : activeConnections[o] # Undefined
    /\ conversationHistory[InitKey] # Absent

\* the stored history of key k2 once DELETE has removed key k
HistoryAfterDelete(k, k2) ==
  LET map == mapDelete(conversationHistory, k) IN
  IF map[k2] = Absent THEN <<>> ELSE heap[map[k2]]

\* C18: DELETE of a key always leaves that key without a stored history; on
\* a key with no stored history it changes nothing, a second DELETE of the
\* key changes nothing more, and the history of every other key is what it
\* was; a DELETE step writes no array and no request.
C18_DeleteIdempotent ==
  /\ [](\A k \in Keys :
          /\ mapDelete(conversationHistory, k)[k] = Absent
          /\ HistoryAfterDelete(k, k) = <<>>
          /\ conversationHistory[k] = Absent =>
               mapDelete(conversationHistory, k) = conversationHistory
          /\ mapDelete(mapDelete(conversationHistory, k), k)
               = mapDelete(conversationHistory, k)
          /\ \A k2 \in Keys \ {k} : HistoryAfterDelete(k, k2) = StoredHistory(k2))
  /\ [][wiped' # wiped =>
          /\ \E k \in Keys :
               /\ conversationHistory' = mapDelete(conversationHistory, k)
               /\ \A k2 \in Keys \ {k} : StoredHistoryNext(k2) = StoredHistory(k2)
          /\ heap' = heap /\ reqs' = reqs]_vars

\* C18 witness: a DELETE removed the stored history of one key while another
\* key holds a history; the first key is now a key with no history.
C18_Witness ==
  /\ wiped[InitKey] # {}
  /\ conversationHistory[InitKey] = Absent
  /\ \E k \in Keys \ {InitKey} : StoredHistory(k) # <<>>

\* C19: two chat messages with different (userId, conversationId) pairs
\* never work on the same history array, and neither finds a turn of the
\* other in the history it reads or writes.
C19_KeyIdentifiesOneHistory ==
  \A r1, r2 \in ReqIds :
    (/\ Started(r1) /\ Started(r2)
     /\ <<reqs[r1].userId, reqs[r1].conversationId>>
          # <<reqs[r2].userId, reqs[r2].conversationId>>) =>
      /\ reqs[r1].key # reqs[r2].key
      /\ reqs[r1].history # reqs[r2].history
      /\ UserTurn(r1) \notin Range(heap[reqs[r2].history])

\* C20: in every reachable state the registry holds a record for exactly the
\* connections that were opened and have not disconnected, and GET
\* /api/health reports the number of these records; a record is created with
\* userId = null, the disconnect of a connection removes its record, and a
\* second disconnect of the same connection changes nothing.
C20_RegistryIsLiveSet ==
  /\ [](/\ \A s \in SocketIds : activeConnections[s] # Undefined <=> s \in Live
        /\ \A s \in SocketIds :
             activeConnections[s] # Undefined => activeConnections[s].socketId = s
        /\ Health.activeConnections = Cardinality(Live))
  /\ [][\A s \in SocketIds :
          /\ (sockState[s] = "new" /\ sockState'[s] = "open") =>
               /\ activeConnections[s] = Undefined
               /\ activeConnections'[s].userId = Null
          /\ (sockState[s] = "open" /\ sockState'[s] = "closed") =>
               /\ activeConnections'[s] = Undefined
               /\ \A o \in SocketIds \ {s} : activeConnections'[o] = activeConnections[o]
          /\ LateNow(s, "disconnect") =>
               /\ activeConnections[s] = Undefined
               /\ activeConnections' = activeConnections
               /\ sockState' = sockState
               /\ conversationHistory' = conversationHistory /\ heap' = heap
               /\ reqs' = reqs]_vars

\* C20 witness: a connection was disconnected twice while another one, opened
\* and identified, is the only record of the registry.
C20_Witness ==
  \E s \in SocketIds :
    /\ <<s, "disconnect">> \in late
    /\ activeConnections[s] = Undefined
    /\ \E o \in SocketIds \ {s} :
         activeConnections[o] # Undefined /\ activeConnections[o].userId # Null
    /\ Health.activeConnections = 1

\* C21: once an 'identify' has bound a userId and a username to a
\* connection, no later step gives the record of that connection a different
\* userId or username.
C21_IdentityBoundOnce ==
  [][\A s \in SocketIds :
       (/\ activeConnections[s] # Undefined
        /\ activeConnections[s].userId # Null
        /\ activeConnections'[s] # Undefined) =>
         /\ activeConnections'[s].userId = activeConnections[s].userId
         /\ activeConnections'[s].username = activeConnections[s].username]_vars

\* what the handler of a message has done and answered, without the history
\* fields that record which other messages it met
Outcome(q) == [q EXCEPT !.overlap = FALSE, !.ahead = {}]
\* the step in which the handler of message r starts
StartsNow(r) == reqs[r].pc = "idle" /\ reqs'[r].pc # "idle"

\* C23: the step in which a message fails writes nothing but the answer of
\* that message: every stored history, every array, the registry and every
\* other request stay as they are; the step in which a message starts leaves
\* the stored history of every other key, the registry and the outcome of
\* every other request as they are; and no turn of a failed message is ever
\* in the stored history of a key other than its own.
C23_FailedMessageIsolated ==
  /\ [][\A r \in ReqIds :
          /\ FailsNow(r) =>
               /\ conversationHistory' = conversationHistory /\ heap' = heap
               /\ activeConnections' = activeConnections /\ sockState' = sockState
               /\ \A q \in ReqIds \ {r} : reqs'[q] = reqs[q]
          /\ StartsNow(r) =>
               /\ \A k \in Keys \ {reqs'[r].key} : StoredHistoryNext(k) = StoredHistory(k)
               /\ activeConnections' = activeConnections /\ sockState' = sockState
               /\ \A q \in ReqIds \ {r} : Outcome(reqs'[q]) = Outcome(reqs[q])]_vars
  /\ [](\A r \in ReqIds, k \in Keys :
          (Failed(r) /\ k # reqs[r].key) => UserTurn(r) \notin Range(StoredHistory(k)))

\* C23 witness: the provider call of a real-time message failed on one key
\* while a message on another key was answered and is stored, and a
\* connection is registered.
C23_Witness ==
  \E r, q \in ReqIds :
    /\ Failed(r) /\ reqs[r].path = "socket" /\ reqs[r].error = "rejected"
    /\ Succeeded(q) /\ reqs[q].key # reqs[r].key
    /\ UserTurn(q) \in Range(StoredHistory(reqs[q].key))
    /\ Live # {}

\* C24: no handler of a real-time event or of a request lets an exception
\* escape it, whatever the payload.
C24_NoExceptionEscapes == uncaught = {}

\* C25: the answer to a failed chat request is chosen by the kind of the
\* failure alone: two failed requests to the same handler with the same
\* message, as much context and the same kind of failure receive the same
\* status and body, whatever the error text of the provider was.
C25_GenericFailureBody ==
  \A r1, r2 \in ReqIds :
    (/\ reqs[r1].pc = "done" /\ reqs[r2].pc = "done"
     /\ reqs[r1].status \in {400, 429, 500} /\ reqs[r2].status \in {400, 429, 500}
     /\ reqs[r1].path = reqs[r2].path
     /\ reqs[r1].message = reqs[r2].message
     /\ Len(reqs[r1].messages) = Len(reqs[r2].messages)
     /\ reqs[r1].error = reqs[r2].error) =>
      /\ reqs[r1].status = reqs[r2].status
      /\ reqs[r1].body = reqs[r2].body

\* C26: a POST /api/chat whose message is present but is not a text string
\* is answered 400, changes no history and makes no provider call.
C26_MalformedIsInvalidInput ==
  \A r \in ReqIds :
    (/\ reqs[r].path = "rest" /\ reqs[r].pc # "idle"
     /\ reqs[r].message.type \notin {"string", "undefined"}) =>
      /\ reqs[r].pc = "done" /\ reqs[r].status = 400
      /\ reqs[r].messages = <<>>
      /\ \A a \in ArrIds : UserTurn(r) \notin Range(heap[a])

\* C27: the step in which POST /api/chat answers 400 creates and changes no
\* history, makes no provider call and leaves the registry and every other
\* request as they are; a missing, empty or whitespace message takes this step.
C27_RejectedHasNoEffect ==
  [][\A r \in ReqIds :
       (StartsNow(r) /\ reqs'[r].path = "rest") =>
         /\ Blank(reqs'[r].message) => reqs'[r].status = 400
         /\ reqs'[r].status = 400 =>
              /\ reqs'[r].pc = "done" /\ reqs'[r].messages = <<>>
              /\ conversationHistory' = conversationHistory /\ heap' = heap
              /\ activeConnections' = activeConnections /\ sockState' = sockState
              /\ \A q \in ReqIds \ {r} : reqs'[q] = reqs[q]]_vars

\* C27 witness: an empty message was answered 400 while a history was
\* stored, a connection was registered and another message awaited the
\* provider.
C27_Witness ==
  \E r, q \in ReqIds :
    /\ reqs[r].path = "rest" /\ reqs[r].status = 400 /\ reqs[r].message = Str(<<>>)
    /\ q < r /\ reqs[q].pc = "await"
    /\ StoredHistory(InitKey) # <<>>
    /\ Live # {}

\* C28: a 'typing' event is forwarded as 'user-typing' to every live
\* connection except its sender, and its step changes no history, no array
\* and no registry record; a step in which 'identify' writes a registry
\* record changes no history and no array.
C28_TypingForwardedToOthers ==
  [][/\ \A e \in typed' \ typed :
          /\ e.emit.event = "user-typing"
          /\ e.from \in Live
          /\ e.emit.to = Live \ {e.from}
          /\ conversationHistory' = conversationHistory /\ heap' = heap
          /\ activeConnections' = activeConnections /\ sockState' = sockState
     /\ (activeConnections' # activeConnections /\ sockState' = sockState) =>
          conversationHistory' = conversationHistory /\ heap' = heap]_vars

\* C28 witness: a typing event reached the other connection and not its
\* sender, a connection is identified, and a history is stored.
C28_Witness ==
  /\ \E e \in typed : e.emit.to = SocketIds \ {e.from}
  /\ \E s \in SocketIds :
       activeConnections[s] # Undefined /\ activeConnections[s].userId # Null
  /\ StoredHistory(InitKey) # <<>>

\* C29: a POST /api/chat, answered 200 or not, emits no event to any
\* real-time connection, and none of its steps changes the registry.
C29_RestRepliesToCallerOnly ==
  /\ [](\A r \in ReqIds : reqs[r].path = "rest" => reqs[r].events = <<>>)
  /\ [][\A r \in ReqIds :
          (reqs'[r].path = "rest" /\ reqs'[r].pc # reqs[r].pc) =>
            /\ activeConnections' = activeConnections /\ sockState' = sockState
            /\ typed' = typed
            /\ \A q \in ReqIds \ {r} : reqs'[q].events = reqs[q].events]_vars

\* C29 witness: with a connection registered, one POST was answered 200 and
\* another was answered with an error.
C29_Witness ==
  /\ Live # {}
  /\ \E r, q \in ReqIds :
       /\ reqs[r].path = "rest" /\ reqs[r].status = 200
       /\ reqs[q].path = "rest" /\ reqs[q].status \in {429, 500}

\* a provider call without its model name and its system message
Orchestrated(params) == [params EXCEPT !.model = "", !.messages = Tail(@)]

Sent(r) == reqs[r].messages
Last(seq) == seq[Len(seq)]

\* C31: for every chat message that reaches the provider, over REST or from
\* a socket, the last element of the message list sent to the provider is
\* the user turn of that very message, whatever other messages are in flight
\* on the same key; the step that starts the handler both pushes the user
\* turn at the end of the array it holds and builds the list from it.
C31_UserTurnIsLastSent ==
  /\ [](\A r \in ReqIds :
          (Started(r) /\ reqs[r].path \in {"rest", "socket"}) =>
            /\ Len(Sent(r)) >= 2
            /\ Last(Sent(r)) = UserTurn(r))
  /\ [][\A r \in ReqIds :
          (StartsNow(r) /\ reqs'[r].pc = "await") =>
            /\ Last(heap'[reqs'[r].history]) = UserMessage(r, reqs'[r].message)
            /\ Last(reqs'[r].messages) = UserMessage(r, reqs'[r].message)
            /\ Tail(reqs'[r].messages) =
                 slice(heap'[reqs'[r].history],
                       0 - (IF reqs'[r].path = "rest" THEN RestLimit ELSE SocketLimit))]_vars

\* C31 witness: a REST request and a real-time message are awaiting the
\* provider on the same key, the later one started while the earlier one
\* was suspended, the stored history is longer than either window, and each
\* list ends with the user turn of its own message.
C31_Witness ==
  \E r, q \in ReqIds :
    /\ r # q /\ reqs[r].pc = "await" /\ reqs[q].pc = "await"
    /\ reqs[r].path = "rest" /\ reqs[q].path = "socket"
    /\ reqs[r].key = reqs[q].key /\ q \in reqs[r].ahead
    /\ reqs[r].history = reqs[q].history
    /\ Len(heap[reqs[r].history]) > RestLimit
    /\ Last(Sent(r)) = UserTurn(r) /\ Last(Sent(q)) = UserTurn(q)
    /\ UserTurn(q) \in Range(Sent(r))

(* ==================== termination of chat messages ==================== *)
\* the handler of r published the reply of the assistant
RepliedToAll(q) ==
  \E i \in EventsOf(q, "new-message") : q.events[i].payload.sender = "ai"
\* the terminal outcome of a finished message is the one its channel allows,
\* and it is a single one
OneOutcome(q) ==
  CASE q.path = "rest" -> q.status \in {200, 400, 429, 500}
    [] q.path = "socket" ->
         /\ RepliedToAll(q) # (EventsOf(q, "error") # {})
         /\ Cardinality(EventsOf(q, "error")) <= 1
         /\ Cardinality({i \in EventsOf(q, "new-message") :
                           q.events[i].payload.sender = "ai"}) <= 1
    [] OTHER -> TRUE

\* C32: every chat message whose handler awaits the provider eventually
\* ends, and a message that ended has exactly one terminal outcome: a REST
\* request one response with status 200, 400, 429 or 500, a real-time
\* message either the published reply of the assistant or an 'error' event
\* for its sender, not both and not neither.
C32_EveryMessageEnds ==
  /\ \A r \in ReqIds : (reqs[r].pc = "await") ~> (reqs[r].pc = "done")
  /\ [](\A r \in ReqIds : reqs[r].pc = "done" => OneOutcome(reqs[r]))

(* ================ properties of the serverless function =============== *)
\* invocations of the function that have begun
Invoked == {r \in ReqIds : reqs[r].pc # "idle" /\ reqs[r].path = "api"}
\* the invocation made, or is making, its provider call
Fetched(r) == reqs[r].messages # <<>>
\* the request of the invocation is a POST that carries no message
NoMessage(r) ==
  /\ reqs[r].request.method = "POST"
  /\ \/ reqs[r].request.body \in {Undefined, Null}
     \/ ~Truthy(reqs[r].request.body.message)

\* C33: an invocation of the serverless function with a method other than
\* POST is answered 405 whatever its body, a POST without a message is
\* answered 400, neither makes a provider call, a provider call is made
\* only for a POST with a message, and every finished invocation has one
\* status among 405, 400, 200 and 500.
C33_MethodThenBody ==
  \A r \in Invoked :
    /\ reqs[r].request.method # "POST" =>
         reqs[r].pc = "done" /\ reqs[r].status = 405 /\ ~Fetched(r)
    /\ NoMessage(r) => reqs[r].pc = "done" /\ reqs[r].status = 400 /\ ~Fetched(r)
    /\ Fetched(r) => reqs[r].request.method = "POST" /\ ~NoMessage(r)
    /\ reqs[r].pc = "done" => reqs[r].status \in {405, 400, 200, 500}

\* the conversationHistory of the request of invocation r, [] when omitted
Supplied(r) ==
  LET h == reqs[r].request.body.conversationHistory
  IN  IF h = Undefined THEN <<>> ELSE h.val
\* what the provider gave invocation q: the reply, or the text of the error
ProviderGave(q) ==
  IF q.status = 200 THEN q.body.reply
  ELSE IF q.error \in {"not_ok", "fetch_failed"} THEN q.body.details
  ELSE Undefined

\* C34: the list the serverless function sends to the provider is one system
\* message, then the whole conversationHistory of the request in its order
\* (nothing when the field is omitted, all of it however long), then the
\* user message; two finished invocations with the same request and the same
\* provider outcome have the same status and body; and an invocation writes
\* no history, no registry entry and no record of another invocation.
C34_StatelessWholeHistory ==
  /\ [](\A r \in Invoked :
          Fetched(r) =>
            /\ Len(Sent(r)) = Len(Supplied(r)) + 2
            /\ Sent(r)[1] = SystemMessage("api")
            /\ SubSeq(Sent(r), 2, Len(Sent(r)) - 1) = Supplied(r)
            /\ Last(Sent(r)) = UserMessage(r, reqs[r].request.body.message))
  /\ [](\A r1, r2 \in Invoked :
          (/\ reqs[r1].pc = "done" /\ reqs[r2].pc = "done"
           /\ reqs[r1].request = reqs[r2].request
           /\ reqs[r1].error = reqs[r2].error
           /\ (reqs[r1].status = 200) = (reqs[r2].status = 200)
           /\ ProviderGave(reqs[r1]) = ProviderGave(reqs[r2])) =>
            /\ reqs[r1].status = reqs[r2].status
            /\ reqs[r1].body = reqs[r2].body)
  /\ [][/\ conversationHistory' = conversationHistory /\ heap' = heap
        /\ activeConnections' = activeConnections
        /\ \A r \in ReqIds :
             reqs'[r] # reqs[r] => \A q \in ReqIds \ {r} : reqs'[q] = reqs[q]]_vars

\* C34 witness: one invocation sent a history longer than the windows of
\* the server, whole, and was answered 200 after an earlier invocation with
\* no history had failed; the earlier failure left no trace in the later
\* list or answer.
C34_Witness ==
  \E r, q \in Invoked :
    /\ q < r /\ reqs[q].pc = "done" /\ reqs[r].pc = "done"
    /\ reqs[q].status = 500 /\ reqs[q].error = "not_ok" /\ Len(Sent(q)) = 2
    /\ reqs[r].status = 200
    /\ Len(Supplied(r)) > RestLimit
    /\ Len(Sent(r)) = Len(Supplied(r)) + 2
    /\ reqs[r].body = [success |-> TRUE, reply |-> Str(<<"h", "e", "l", "l", "o">>)]

====
